---- MODULE Spec2Model ----
(***************************************************************************)
(* spring-opentelemetry: OpenTelemetryPlugin (src/spring-opentelemetry/    *)
(* src/lib.rs).  The plugin's immediately_build constructs the metric, log *)
(* and trace pipelines, records the meter and tracer providers and the     *)
(* propagator in the process-wide OpenTelemetry registry, registers three  *)
(* layers and one shutdown hook on the host; the hook runs shutdown.       *)
(***************************************************************************)
EXTENDS Integers, Sequences, FiniteSets, TLC

\* How many times immediately_build may run in one process.
MaxRuns == 2

\* Handle value meaning "no provider": an unset local, and the no-op provider
\* a registry slot holds before the first write and after a teardown.
Noop == 0

----------------------------------------------------------------------------
(* Resources: lib.rs lines 116-146                                         *)

\* spring::config::env::Env, the argument of every init_* function.
Env == {"Env::Dev", "Env::Test", "Env::Prod"}

\* format!("{:?}", env): the derived Debug prints the variant's name.
EnvDebug(e) ==
    CASE e = "Env::Dev"  -> "Dev"
      [] e = "Env::Test" -> "Test"
      [] e = "Env::Prod" -> "Prod"

CARGO_PKG_NAME == "spring-opentelemetry"
CARGO_PKG_VERSION == "0.1.0"
SCHEMA_URL == "https://opentelemetry.io/schemas/semconv"
NoSchema == ""

\* The values the process environment may give OTEL_SERVICE_NAME ("" is
\* unset or empty) and OTEL_RESOURCE_ATTRIBUTES (the key=value pairs in order).
ServiceNameChoices == {"", "env-service"}
ResourceAttributesChoices ==
    { << >>,
      << <<"team", "payments">> >>,
      << <<"service.name", "attr-service">>,
         <<"deployment.environment.name", "staging">> >> }

EmptyAttrs == [k \in {} |-> ""]

\* A Resource: attributes by key, and a schema URL.
Resource(attrs, url) == [attrs |-> attrs, schema_url |-> url]

EmptyResource == Resource(EmptyAttrs, NoSchema)

\* Resource::merge(&self, other): every attribute of `other` is inserted over
\* a copy of self's attributes, so `other` wins on a key both have.
merge(self, other) ==
    IF DOMAIN self.attrs = {} THEN other
    ELSE IF DOMAIN other.attrs = {} THEN self
    ELSE Resource(other.attrs @@ self.attrs,
                  IF self.schema_url = NoSchema THEN other.schema_url
                  ELSE IF other.schema_url = NoSchema THEN self.schema_url
                  ELSE IF self.schema_url = other.schema_url THEN self.schema_url
                  ELSE NoSchema)

\* Attributes from a list of key/value pairs; a later pair replaces an earlier one.
RECURSIVE AttrsOf(_)
AttrsOf(kvs) ==
    IF kvs = << >> THEN EmptyAttrs
    ELSE (kvs[Len(kvs)][1] :> kvs[Len(kvs)][2]) @@ AttrsOf(SubSeq(kvs, 1, Len(kvs) - 1))

\* app_resource(env): the three application keys under the semconv schema URL.
app_resource(e) ==
    Resource(AttrsOf(<< <<"service.name", CARGO_PKG_NAME>>,
                        <<"service.version", CARGO_PKG_VERSION>>,
                        <<"deployment.environment.name", EnvDebug(e)>> >>),
             SCHEMA_URL)

\* resource::EnvResourceDetector: the pairs of OTEL_RESOURCE_ATTRIBUTES.
EnvResourceDetector(os) == Resource(AttrsOf(os.OTEL_RESOURCE_ATTRIBUTES), NoSchema)

\* resource::SdkProvidedResourceDetector: service.name from OTEL_SERVICE_NAME,
\* else from OTEL_RESOURCE_ATTRIBUTES, else "unknown_service".
SdkProvidedResourceDetector(os) ==
    Resource("service.name" :>
               (IF os.OTEL_SERVICE_NAME # "" THEN os.OTEL_SERVICE_NAME
                ELSE IF "service.name" \in DOMAIN EnvResourceDetector(os).attrs
                     THEN EnvResourceDetector(os).attrs["service.name"]
                     ELSE "unknown_service"),
             NoSchema)

\* resource::TelemetryResourceDetector.
TelemetryResourceDetector ==
    Resource(AttrsOf(<< <<"telemetry.sdk.name", "opentelemetry">>,
                        <<"telemetry.sdk.language", "rust">> >>), NoSchema)

\* The detectors of the "more-resource" feature.
HostResourceDetector == Resource("host.arch" :> "x86_64", NoSchema)
OsResourceDetector == Resource("os.type" :> "linux", NoSchema)
ProcessResourceDetector == Resource("process.pid" :> "4242", NoSchema)

\* Resource::from_detectors: the detectors' resources merged in list order.
RECURSIVE from_detectors(_)
from_detectors(detected) ==
    IF detected = << >> THEN EmptyResource
    ELSE merge(from_detectors(SubSeq(detected, 1, Len(detected) - 1)),
               detected[Len(detected)])

\* infra_resource(): the detector list, the first three under cfg(more-resource).
infra_resource(feat, os) ==
    from_detectors(
        (IF feat.more_resource
         THEN <<HostResourceDetector, OsResourceDetector, ProcessResourceDetector>>
         ELSE << >>)
        \o <<SdkProvidedResourceDetector(os), TelemetryResourceDetector,
             EnvResourceDetector(os)>>)

\* get_resource_attr(env)
get_resource_attr(e, feat, os) == merge(app_resource(e), infra_resource(feat, os))

----------------------------------------------------------------------------
(* State                                                                   *)

VARIABLES
    env,                         \* app.get_env()
    features,                    \* the cargo features of the build
    os_env,                      \* OTEL_SERVICE_NAME, OTEL_RESOURCE_ATTRIBUTES
    pc,                          \* position of the bootstrap / teardown thread
    run,                         \* immediately_build runs started
    providers,                   \* every provider built so far, by handle
    local,                       \* meter_provider, log_provider, tracer of the run
    GLOBAL_TRACER_PROVIDER,      \* opentelemetry::global slots
    GLOBAL_METER_PROVIDER,
    GLOBAL_TEXT_MAP_PROPAGATOR,
    slot_writes,                 \* writes to each slot during the current run
    build_failure,               \* which pipeline's construction failed, if any
    layers,                      \* app.add_layer calls, in order
    hooks,                       \* app.add_shutdown_hook calls, in order
    shutdowns                    \* the shutdown futures created, in order

vars == <<env, features, os_env, pc, run, providers, local,
          GLOBAL_TRACER_PROVIDER, GLOBAL_METER_PROVIDER,
          GLOBAL_TEXT_MAP_PROPAGATOR, slot_writes, build_failure,
          layers, hooks, shutdowns>>

NoLocals == [meter_provider |-> Noop, log_provider |-> Noop, tracer |-> Noop]
NoWrites == [tracer_provider |-> 0, meter_provider |-> 0, propagator |-> 0]
NoPropagator == [kind |-> "noop", run |-> 0]
NoFailure == [run |-> 0, signal |-> "none"]
Pending == [kind |-> "Pending", context |-> "", cause |-> ""]

Init ==
    /\ env \in Env
    /\ features \in [jaeger : BOOLEAN, zipkin : BOOLEAN, more_resource : BOOLEAN]
    /\ os_env \in [OTEL_SERVICE_NAME : ServiceNameChoices,
                   OTEL_RESOURCE_ATTRIBUTES : ResourceAttributesChoices]
    /\ pc = "idle"
    /\ run = 0
    /\ providers = << >>
    /\ local = NoLocals
    /\ GLOBAL_TRACER_PROVIDER = Noop
    /\ GLOBAL_METER_PROVIDER = Noop
    /\ GLOBAL_TEXT_MAP_PROPAGATOR = NoPropagator
    /\ slot_writes = NoWrites
    /\ build_failure = NoFailure
    /\ layers = << >>
    /\ hooks = << >>
    /\ shutdowns = << >>

----------------------------------------------------------------------------
(* Helpers                                                                 *)

\* Handle of the next provider to be built.
NewHandle == Len(providers) + 1

\* A provider built by one of the OTLP pipelines with the assembled resource.
NewProvider(signal) ==
    [signal |-> signal, run |-> run,
     resource |-> get_resource_attr(env, features, os_env)]

\* Result::expect without the panic: control goes on after a failure.
expect_no_panic(ok, next) == next

\* Result::expect(msg): a failed construction panics out of immediately_build.
expect(ok, next) == IF ok THEN next ELSE "panicked"

\* A registry write that keeps a provider that is already installed.
set_provider_once(slot, provider) == IF slot = Noop THEN provider ELSE slot

\* global::set_meter_provider / global::set_tracer_provider: the slot takes
\* the new provider, whatever it held.
set_provider(slot, provider) == provider

\* A teardown that leaves the registered provider in the slot.
shutdown_tracer_provider_keep(slot) == slot

\* global::shutdown_tracer_provider(): the slot is replaced by the no-op provider.
shutdown_tracer_provider(slot) == Noop

\* A clone that copies the provider into a new one.
clone_deep(handle) == handle + 100

\* SdkMeterProvider::clone: another handle to the same provider.
clone(handle) == handle

\* The propagators init_tracer installs, in source order.
propagator_installs(feat) ==
    <<"tracecontext">>
    \o (IF feat.jaeger THEN <<"jaeger">> ELSE << >>)
    \o (IF feat.zipkin THEN <<"zipkin">> ELSE << >>)

\* global::set_text_map_propagator for each of them: the last one stays.
set_text_map_propagator(slot, installs) ==
    [kind |-> installs[Len(installs)], run |-> run]

Ok(msg) == [kind |-> "Ok", context |-> msg, cause |-> ""]
Err(context, cause) == [kind |-> "Err", context |-> context, cause |-> cause]

----------------------------------------------------------------------------
(* immediately_build: lib.rs lines 48-62                                   *)

\* The host calls the plugin's immediately_build (immediately() is true).
immediately_build ==
    /\ pc \in {"idle", "built"}
    /\ run < MaxRuns
    /\ run' = run + 1
    /\ local' = NoLocals
    /\ slot_writes' = NoWrites
    /\ pc' = "init_metrics"
    /\ UNCHANGED <<env, features, os_env, providers, GLOBAL_TRACER_PROVIDER,
                   GLOBAL_METER_PROVIDER, GLOBAL_TEXT_MAP_PROPAGATOR,
                   build_failure, layers, hooks, shutdowns>>

\* init_metrics(env), lines 79-91.
init_metrics ==
    /\ pc = "init_metrics"
    /\ \E ok \in BOOLEAN :
         /\ IF ok
            THEN /\ providers' = Append(providers, NewProvider("metrics"))
                 /\ local' = [local EXCEPT !.meter_provider = NewHandle]
                 /\ GLOBAL_METER_PROVIDER' =
                        set_provider(GLOBAL_METER_PROVIDER, clone(NewHandle))
                 /\ slot_writes' = [slot_writes EXCEPT !.meter_provider = @ + 1]
                 /\ UNCHANGED build_failure
            ELSE /\ build_failure' = [run |-> run, signal |-> "metrics"]
                 /\ UNCHANGED <<providers, local, GLOBAL_METER_PROVIDER, slot_writes>>
         /\ pc' = expect(ok, "init_logs")
    /\ UNCHANGED <<env, features, os_env, run, GLOBAL_TRACER_PROVIDER,
                   GLOBAL_TEXT_MAP_PROPAGATOR, layers, hooks, shutdowns>>

\* init_logs(env), lines 70-77: no registry slot is written.
init_logs ==
    /\ pc = "init_logs"
    /\ \E ok \in BOOLEAN :
         /\ IF ok
            THEN /\ providers' = Append(providers, NewProvider("logs"))
                 /\ local' = [local EXCEPT !.log_provider = NewHandle]
                 /\ UNCHANGED build_failure
            ELSE /\ build_failure' = [run |-> run, signal |-> "logs"]
                 /\ UNCHANGED <<providers, local>>
         /\ pc' = expect(ok, "init_tracer")
    /\ UNCHANGED <<env, features, os_env, run, GLOBAL_TRACER_PROVIDER,
                   GLOBAL_METER_PROVIDER, GLOBAL_TEXT_MAP_PROPAGATOR,
                   slot_writes, layers, hooks, shutdowns>>

\* init_tracer(env) with the registry write left out.
init_tracer_unregistered ==
    /\ pc = "init_tracer"
    /\ GLOBAL_TEXT_MAP_PROPAGATOR' =
           set_text_map_propagator(GLOBAL_TEXT_MAP_PROPAGATOR,
                                   propagator_installs(features))
    /\ \E ok \in BOOLEAN :
         /\ IF ok
            THEN /\ providers' = Append(providers, NewProvider("traces"))
                 /\ local' = [local EXCEPT !.tracer = NewHandle]
                 /\ slot_writes' = [slot_writes EXCEPT
                        !.propagator = @ + Len(propagator_installs(features))]
                 /\ UNCHANGED build_failure
            ELSE /\ build_failure' = [run |-> run, signal |-> "traces"]
                 /\ slot_writes' = [slot_writes EXCEPT
                        !.propagator = @ + Len(propagator_installs(features))]
                 /\ UNCHANGED <<providers, local>>
         /\ pc' = expect(ok, "trace_layer")
    /\ UNCHANGED <<env, features, os_env, run, GLOBAL_TRACER_PROVIDER,
                   GLOBAL_METER_PROVIDER, layers, hooks, shutdowns>>

\* init_tracer(env), lines 93-115: the propagator is set before the pipeline
\* is built, the tracer provider is registered after the tracer is taken.
init_tracer ==
    /\ pc = "init_tracer"
    /\ GLOBAL_TEXT_MAP_PROPAGATOR' =
           set_text_map_propagator(GLOBAL_TEXT_MAP_PROPAGATOR,
                                   propagator_installs(features))
    /\ \E ok \in BOOLEAN :
         /\ IF ok
            THEN /\ providers' = Append(providers, NewProvider("traces"))
                 /\ local' = [local EXCEPT !.tracer = NewHandle]
                 /\ GLOBAL_TRACER_PROVIDER' =
                        set_provider(GLOBAL_TRACER_PROVIDER, NewHandle)
                 /\ slot_writes' = [slot_writes EXCEPT
                        !.tracer_provider = @ + 1,
                        !.propagator = @ + Len(propagator_installs(features))]
                 /\ UNCHANGED build_failure
            ELSE /\ build_failure' = [run |-> run, signal |-> "traces"]
                 /\ slot_writes' = [slot_writes EXCEPT
                        !.propagator = @ + Len(propagator_installs(features))]
                 /\ UNCHANGED <<providers, local, GLOBAL_TRACER_PROVIDER>>
         /\ pc' = expect(ok, "trace_layer")
    /\ UNCHANGED <<env, features, os_env, run, GLOBAL_METER_PROVIDER,
                   layers, hooks, shutdowns>>

\* app.add_layer(Box::new(layer)) at position `at`, going on to `next`.
add_layer(at, kind, provider, next) ==
    /\ pc = at
    /\ layers' = Append(layers, [kind |-> kind, provider |-> provider, run |-> run])
    /\ pc' = next
    /\ UNCHANGED <<env, features, os_env, run, providers, local,
                   GLOBAL_TRACER_PROVIDER, GLOBAL_METER_PROVIDER,
                   GLOBAL_TEXT_MAP_PROPAGATOR, slot_writes, build_failure,
                   hooks, shutdowns>>

\* Lines 54 and 58: OpenTelemetryLayer::new(tracer).
add_trace_layer == add_layer("trace_layer", "trace", local.tracer, "log_layer")

\* Lines 55 and 59: OpenTelemetryTracingBridge::new(&log_provider).
add_log_layer == add_layer("log_layer", "log", local.log_provider, "metric_layer")

\* Lines 56 and 60: MetricsLayer::new(meter_provider.clone()).
add_metric_layer ==
    add_layer("metric_layer", "metric", clone(local.meter_provider), "shutdown_hook")

\* Line 61: the hook's closure takes meter_provider and log_provider by move.
add_shutdown_hook ==
    /\ pc = "shutdown_hook"
    /\ hooks' = Append(hooks, [meter_provider |-> local.meter_provider,
                               log_provider |-> local.log_provider,
                               run |-> run])
    /\ pc' = "built"
    /\ UNCHANGED <<env, features, os_env, run, providers, local,
                   GLOBAL_TRACER_PROVIDER, GLOBAL_METER_PROVIDER,
                   GLOBAL_TEXT_MAP_PROPAGATOR, slot_writes, build_failure,
                   layers, shutdowns>>

----------------------------------------------------------------------------
(* shutdown: lib.rs lines 150-162                                          *)

\* The shutdown future being driven: the last one created.
Current == shutdowns[Len(shutdowns)]

SetCurrent(rec) == [shutdowns EXCEPT ![Len(shutdowns)] = rec]

\* The host calls the next hook's closure: Self::shutdown(meter_provider,
\* log_provider) makes the future (line 61).  meter_ok / log_ok are what
\* each provider's shutdown() answers when it is called.
invoke_shutdown_hook ==
    /\ pc \in {"built", "returned"}
    /\ Len(shutdowns) < Len(hooks)
    /\ \E meter_ok \in BOOLEAN, log_ok \in BOOLEAN :
         shutdowns' = Append(shutdowns,
             [meter_provider |-> hooks[Len(shutdowns) + 1].meter_provider,
              log_provider |-> hooks[Len(shutdowns) + 1].log_provider,
              run |-> hooks[Len(shutdowns) + 1].run,
              meter_ok |-> meter_ok, log_ok |-> log_ok,
              steps |-> << >>, result |-> Pending])
    /\ pc' = "shutdown_tracer"
    /\ UNCHANGED <<env, features, os_env, run, providers, local,
                   GLOBAL_TRACER_PROVIDER, GLOBAL_METER_PROVIDER,
                   GLOBAL_TEXT_MAP_PROPAGATOR, slot_writes, build_failure,
                   layers, hooks>>

\* shutdown that goes to the meter provider without the tracer teardown.
shutdown_tracer_skipped ==
    /\ pc = "shutdown_tracer"
    /\ pc' = "shutdown_meter"
    /\ UNCHANGED <<env, features, os_env, run, providers, local,
                   GLOBAL_TRACER_PROVIDER, GLOBAL_METER_PROVIDER,
                   GLOBAL_TEXT_MAP_PROPAGATOR, slot_writes, build_failure,
                   layers, hooks, shutdowns>>

\* Line 154: global::shutdown_tracer_provider().
shutdown_tracer ==
    /\ pc = "shutdown_tracer"
    /\ GLOBAL_TRACER_PROVIDER' = shutdown_tracer_provider(GLOBAL_TRACER_PROVIDER)
    /\ shutdowns' = SetCurrent([Current EXCEPT !.steps = Append(@, "tracer")])
    /\ pc' = "shutdown_meter"
    /\ UNCHANGED <<env, features, os_env, run, providers, local,
                   GLOBAL_METER_PROVIDER, GLOBAL_TEXT_MAP_PROPAGATOR,
                   slot_writes, build_failure, layers, hooks>>

\* The meter close with its error dropped instead of returned.
shutdown_meter_error_dropped ==
    /\ pc = "shutdown_meter"
    /\ shutdowns' = SetCurrent([Current EXCEPT !.steps = Append(@, "meter")])
    /\ pc' = "shutdown_log"
    /\ UNCHANGED <<env, features, os_env, run, providers, local,
                   GLOBAL_TRACER_PROVIDER, GLOBAL_METER_PROVIDER,
                   GLOBAL_TEXT_MAP_PROPAGATOR, slot_writes, build_failure,
                   layers, hooks>>

\* The two closes in the other order: the log provider before the meter provider.
shutdown_meter_after_log ==
    /\ pc = "shutdown_meter"
    /\ shutdowns' = SetCurrent([Current EXCEPT
           !.steps = @ \o <<"log", "meter">>,
           !.result = IF ~Current.log_ok
                      THEN Err("shutdown log provider failed", "log provider error")
                      ELSE IF ~Current.meter_ok
                      THEN Err("shutdown meter provider failed", "meter provider error")
                      ELSE Ok("OpenTelemetry shutdown successful")])
    /\ pc' = "returned"
    /\ UNCHANGED <<env, features, os_env, run, providers, local,
                   GLOBAL_TRACER_PROVIDER, GLOBAL_METER_PROVIDER,
                   GLOBAL_TEXT_MAP_PROPAGATOR, slot_writes, build_failure,
                   layers, hooks>>

\* Lines 155-157: meter_provider.shutdown().context(..)? returns the error
\* from shutdown at once when the close fails.
shutdown_meter ==
    /\ pc = "shutdown_meter"
    /\ IF Current.meter_ok
       THEN /\ shutdowns' = SetCurrent([Current EXCEPT !.steps = Append(@, "meter")])
            /\ pc' = "shutdown_log"
       ELSE /\ shutdowns' = SetCurrent([Current EXCEPT
                   !.steps = Append(@, "meter"),
                   !.result = Err("shutdown meter provider failed",
                                  "meter provider error")])
            /\ pc' = "returned"
    /\ UNCHANGED <<env, features, os_env, run, providers, local,
                   GLOBAL_TRACER_PROVIDER, GLOBAL_METER_PROVIDER,
                   GLOBAL_TEXT_MAP_PROPAGATOR, slot_writes, build_failure,
                   layers, hooks>>

\* Lines 158-161: log_provider.shutdown().context(..)?, then Ok(..).
shutdown_log ==
    /\ pc = "shutdown_log"
    /\ shutdowns' = SetCurrent([Current EXCEPT
           !.steps = Append(@, "log"),
           !.result = IF Current.log_ok
                      THEN Ok("OpenTelemetry shutdown successful")
                      ELSE Err("shutdown log provider failed", "log provider error")])
    /\ pc' = "returned"
    /\ UNCHANGED <<env, features, os_env, run, providers, local,
                   GLOBAL_TRACER_PROVIDER, GLOBAL_METER_PROVIDER,
                   GLOBAL_TEXT_MAP_PROPAGATOR, slot_writes, build_failure,
                   layers, hooks>>

----------------------------------------------------------------------------

Next ==
    \/ immediately_build
    \/ init_metrics
    \/ init_logs
    \/ init_tracer
    \/ add_trace_layer
    \/ add_log_layer
    \/ add_metric_layer
    \/ add_shutdown_hook
    \/ invoke_shutdown_hook
    \/ shutdown_tracer
    \/ shutdown_meter
    \/ shutdown_log

Spec == Init /\ [][Next]_vars

----------------------------------------------------------------------------
(* Properties                                                              *)

Returned(i) == shutdowns[i].result # Pending

StepsOf(i) == {shutdowns[i].steps[n] : n \in 1..Len(shutdowns[i].steps)}

MeterError == Err("shutdown meter provider failed", "meter provider error")

\* Positions of immediately_build after the three init_* calls returned.
AfterInit == {"trace_layer", "log_layer", "metric_layer", "shutdown_hook", "built"}

\* Positions of the current run at which one of its layers is on the host and
\* teardown has not begun.
LayerRegistered == AfterInit \ {"trace_layer"}

\* The registry has a slot for the tracer provider and one for the meter provider.
GloballyRegistered(handle) ==
    handle # Noop /\ handle \in {GLOBAL_TRACER_PROVIDER, GLOBAL_METER_PROVIDER}

SignalOrder(signal) ==
    CASE signal = "metrics" -> 1 [] signal = "logs" -> 2 [] signal = "traces" -> 3

\* C1: a shutdown whose meter close failed has still attempted the log close,
\* and its error names the metrics step.
C1_LogCloseStillAttempted ==
    \A i \in 1..Len(shutdowns) :
        (Returned(i) /\ ~shutdowns[i].meter_ok) =>
            /\ "log" \in StepsOf(i)
            /\ shutdowns[i].result = MeterError

\* C2: on every key that the application subset and the infrastructure subset
\* both have, the resource of every pipeline carries the application's value.
C2_AppSubsetWins ==
    \A i \in 1..Len(providers) :
        \A k \in DOMAIN app_resource(env).attrs
                   \cap DOMAIN infra_resource(features, os_env).attrs :
            providers[i].resource.attrs[k] = app_resource(env).attrs[k]

\* C3: when the meter close and the log close both fail, shutdown returns the
\* error of the metrics step, with its cause.
C3_BothFailFirstFailure ==
    \A i \in 1..Len(shutdowns) :
        (Returned(i) /\ ~shutdowns[i].meter_ok /\ ~shutdowns[i].log_ok) =>
            shutdowns[i].result = MeterError

C3_Witness ==
    \E i \in 1..Len(shutdowns) :
        Returned(i) /\ ~shutdowns[i].meter_ok /\ ~shutdowns[i].log_ok

\* C4: every shutdown that returned has torn the global tracer provider down,
\* whatever the closes answered, and returned Ok when both closes succeeded.
C4_TeardownAlwaysAndOk ==
    \A i \in 1..Len(shutdowns) :
        Returned(i) =>
            /\ "tracer" \in StepsOf(i)
            /\ GLOBAL_TRACER_PROVIDER = Noop
            /\ (shutdowns[i].meter_ok /\ shutdowns[i].log_ok) =>
                   shutdowns[i].result = Ok("OpenTelemetry shutdown successful")

C4_Witness ==
    /\ \E i \in 1..Len(shutdowns) :
           Returned(i) /\ shutdowns[i].meter_ok /\ shutdowns[i].log_ok
    /\ \E i \in 1..Len(shutdowns) : Returned(i) /\ ~shutdowns[i].meter_ok

\* C5 as stated: each registry slot is written exactly once in a run of
\* immediately_build, and after shutdown no slot holds what startup installed.
C5_WrittenOnceAndCleared ==
    /\ pc \in AfterInit =>
          /\ slot_writes.tracer_provider = 1
          /\ slot_writes.meter_provider = 1
          /\ slot_writes.propagator = 1
    /\ pc = "returned" =>
          /\ GLOBAL_TRACER_PROVIDER # local.tracer
          /\ GLOBAL_METER_PROVIDER # local.meter_provider
          /\ GLOBAL_TEXT_MAP_PROPAGATOR.run # run

\* C5 amended: in a run the tracer provider and meter provider slots are
\* written once and the propagator slot once per compiled-in propagator; a
\* returned shutdown has replaced the tracer provider slot by the no-op
\* provider, and the meter provider and propagator slots still hold what the
\* last run installed.
C5_TracerSlotClearedOnly ==
    /\ pc \in AfterInit =>
          /\ slot_writes.tracer_provider = 1
          /\ slot_writes.meter_provider = 1
          /\ slot_writes.propagator = Len(propagator_installs(features))
    /\ pc = "returned" =>
          /\ GLOBAL_TRACER_PROVIDER = Noop
          /\ GLOBAL_TRACER_PROVIDER # local.tracer
          /\ GLOBAL_METER_PROVIDER = local.meter_provider
          /\ GLOBAL_TEXT_MAP_PROPAGATOR.run = run

C5_Witness ==
    /\ pc = "returned"
    /\ Len(shutdowns) = Len(hooks)
    /\ GLOBAL_METER_PROVIDER # Noop

\* C6: a failed pipeline construction panics out of immediately_build: no
\* pipeline after it is built in that run, and the run registers no layer
\* and no shutdown hook.
C6_ConstructionFailureAborts ==
    build_failure # NoFailure =>
        /\ pc = "panicked"
        /\ \A i \in 1..Len(providers) :
               providers[i].run = build_failure.run =>
                   SignalOrder(providers[i].signal) < SignalOrder(build_failure.signal)
        /\ \A i \in 1..Len(layers) : layers[i].run # build_failure.run
        /\ \A i \in 1..Len(hooks) : hooks[i].run # build_failure.run

C6_Witness ==
    /\ build_failure.signal = "logs"
    /\ build_failure.run = 2
    /\ Len(layers) = 3

\* C7 as stated: once a layer of the run is on the host, the trace, metric
\* and log providers are all built and all globally registered.
C7_AllThreeGloballyRegistered ==
    pc \in LayerRegistered =>
        /\ GloballyRegistered(local.tracer)
        /\ GloballyRegistered(local.meter_provider)
        /\ GloballyRegistered(local.log_provider)

\* C7 amended: once a layer of the run is on the host, all three providers of
\* the run are built, and the tracer provider and the meter provider are the
\* ones in the global registry; the log provider is in no registry slot.
C7_BuiltBeforeLayers ==
    pc \in LayerRegistered =>
        /\ \A signal \in {"metrics", "logs", "traces"} :
               \E i \in 1..Len(providers) :
                   providers[i].run = run /\ providers[i].signal = signal
        /\ local.log_provider # Noop
        /\ GLOBAL_TRACER_PROVIDER = local.tracer /\ local.tracer # Noop
        /\ GLOBAL_METER_PROVIDER = local.meter_provider /\ local.meter_provider # Noop
        /\ ~GloballyRegistered(local.log_provider)

C7_Witness ==
    /\ pc = "log_layer"
    /\ \E i \in 1..Len(layers) : layers[i].run = run

\* C8: a second run of the initialization raises no error of its own, and
\* after it each registry slot holds what the second run wrote.
C8_LastWriterWins ==
    run >= 2 =>
        /\ pc \in {"init_logs", "init_tracer"} \cup AfterInit =>
               /\ GLOBAL_METER_PROVIDER = local.meter_provider
               /\ providers[local.meter_provider].run = run
        /\ pc \in AfterInit =>
               /\ GLOBAL_TRACER_PROVIDER = local.tracer
               /\ providers[local.tracer].run = run
               /\ GLOBAL_TEXT_MAP_PROPAGATOR.run = run
               /\ build_failure = NoFailure

C8_Witness ==
    /\ run = 2
    /\ pc = "built"
    /\ GLOBAL_METER_PROVIDER # hooks[1].meter_provider

\* C9: a shutdown hook exists only for a run whose three initializations
\* succeeded, and the providers it closes are the ones init_metrics and
\* init_logs returned in that run, which the run's layers were built from.
C9_HookHoldsReturnedHandles ==
    /\ \A i \in 1..Len(hooks) :
           /\ hooks[i].meter_provider \in 1..Len(providers)
           /\ hooks[i].log_provider \in 1..Len(providers)
           /\ providers[hooks[i].meter_provider] =
                  [signal |-> "metrics", run |-> hooks[i].run,
                   resource |-> get_resource_attr(env, features, os_env)]
           /\ providers[hooks[i].log_provider].signal = "logs"
           /\ providers[hooks[i].log_provider].run = hooks[i].run
           /\ \E t \in 1..Len(providers) :
                  providers[t].signal = "traces" /\ providers[t].run = hooks[i].run
           /\ \A n \in 1..Len(layers) :
                  layers[n].run = hooks[i].run =>
                      /\ layers[n].kind = "metric" =>
                             layers[n].provider = hooks[i].meter_provider
                      /\ layers[n].kind = "log" =>
                             layers[n].provider = hooks[i].log_provider
    /\ \A j \in 1..Len(shutdowns) :
           /\ j <= Len(hooks)
           /\ shutdowns[j].meter_provider = hooks[j].meter_provider
           /\ shutdowns[j].log_provider = hooks[j].log_provider

C9_Witness ==
    \E j \in 1..Len(shutdowns) :
        /\ "log" \in StepsOf(j)
        /\ shutdowns[j].meter_provider # Noop

\* C10: the steps of one shutdown run in the order tracer teardown, meter
\* close, log close, each after the one before it has finished.
C10_StepsInOrder ==
    \A i \in 1..Len(shutdowns) :
        shutdowns[i].steps \in { << >>, <<"tracer">>, <<"tracer", "meter">>,
                                 <<"tracer", "meter", "log">> }

C10_Witness ==
    \E i \in 1..Len(shutdowns) :
        shutdowns[i].steps = <<"tracer", "meter", "log">>

====
